---- MODULE Spec2Model ----
(***************************************************************************)
(* MathLogic: the expression engine (LogicEvaluator), the truth-table      *)
(* generator (TruthTableGenerator), the canvas (LogicCore) and the         *)
(* application handlers that drive them (MathLogicApp).                    *)
(*                                                                         *)
(* A formula is a JavaScript string; it is modelled as the sequence of its *)
(* UTF-16 code units, so that "sorted by character code" and the regular   *)
(* expression /^[a-zA-Z]$/ keep their meaning.  A JavaScript value that    *)
(* flows through the evaluator is one of the strings "true", "false" and   *)
(* "undefined" (the evaluator's operand stack is dynamically typed).       *)
(***************************************************************************)
EXTENDS Integers, Sequences, FiniteSets, TLC

VARIABLES
    call,               \* the evaluate(expression, variableValues) call examined
    returned,           \* what that call returned ("pending" before it ran)
    arg,                \* the expression last handed to generateTable
    outcome,            \* how the last generateTable call ended
    combinations,       \* the last generateCombinations call: its argument and result
    currentExpression,  \* LogicCore.currentExpression
    currentTable,       \* TruthTableGenerator.currentTable (<<>> is null)
    userAnswers,        \* TruthTableGenerator.userAnswers
    radios,             \* the radio groups of the rendered table (DOM)
    isModalOpen,        \* MathLogicApp.isModalOpen
    summary,            \* what checkAnswers returned to the latest handler (<<>>: not called)
    converted,          \* what the infixToPostfix call examined returned (<<>>: not called)
    extracted,          \* what the two variable extractors returned (<<>>: not called)
    elements,           \* LogicCore.elements
    connections,        \* LogicCore.connections
    selectedElements,   \* LogicCore.selectedElements
    nextElementId,      \* LogicCore.nextElementId
    applied             \* the latest step's applyOperator call and its return (<<>>: none)

\* the canvas state of LogicCore, with the record of the applyOperator call
canvasVars == <<elements, connections, selectedElements, nextElementId, applied>>

vars == <<call, returned, arg, outcome, combinations, currentExpression,
          currentTable, userAnswers, radios, isModalOpen, summary, converted,
          extracted, canvasVars>>

(***************************************************************************)
(* Characters                                                              *)
(***************************************************************************)
SPACE   == 32
TAB     == 9
LPAREN  == 40
RPAREN  == 41
NEG     == 126
AND     == 8743
OR      == 8744
IMPLIES == 8594
IFF     == 8596
CharP   == 112
CharQ   == 113
CharR   == 114
CharUpperA == 65

BinaryOps == {AND, OR, IMPLIES, IFF}

(***************************************************************************)
(* JavaScript values                                                       *)
(***************************************************************************)
JsTrue      == "true"
JsFalse     == "false"
JsUndefined == "undefined"
JsBooleans  == {JsTrue, JsFalse}

Truthy(v) == v = JsTrue

JsBool(b) == IF b THEN JsTrue ELSE JsFalse

\* !a
JsNot(a) == JsBool(~Truthy(a))

\* a && b yields a when a is falsy, b otherwise
JsAnd(a, b) == IF Truthy(a) THEN b ELSE a

\* a || b yields a when a is truthy, b otherwise
JsOr(a, b) == IF Truthy(a) THEN a ELSE b

\* a === b
JsStrictEq(a, b) == JsBool(a = b)

\* object[key]: undefined for a key the object does not hold
Lookup(object, key) == IF key \in DOMAIN object THEN object[key] ELSE JsUndefined

(***************************************************************************)
(* LogicEvaluator                                                          *)
(***************************************************************************)
\* /^[a-zA-Z]$/.test(char)
isVariable(char) == char \in (65..90) \cup (97..122)

\* this.operators[char] is defined
IsOperator(char) == char \in {NEG, AND, OR, IMPLIES, IFF}

precedence(char) ==
    CASE char = NEG     -> 4
      [] char = AND     -> 3
      [] char = OR      -> 2
      [] char = IMPLIES -> 1
      [] char = IFF     -> 1

unary(char) == char = NEG

binary(char) == char \in BinaryOps

Top(stack) == stack[Len(stack)]

Front(stack) == SubSeq(stack, 1, Len(stack) - 1)

\* the loop of the ')' branch: operators go to the output until a '(' is on top
RECURSIVE PopToParen(_, _)
PopToParen(output, operatorStack) ==
    IF Len(operatorStack) > 0 /\ Top(operatorStack) # LPAREN
    THEN PopToParen(Append(output, Top(operatorStack)), Front(operatorStack))
    ELSE <<output, operatorStack>>

\* the whole ')' branch: the '(' found is dropped, a missing one is not an error
CloseParen(output, operatorStack) ==
    LET popped == PopToParen(output, operatorStack)
    IN  IF Len(popped[2]) > 0 /\ Top(popped[2]) = LPAREN
        THEN <<popped[1], Front(popped[2])>>
        ELSE popped

PopsBeforePush_strict(top, char) == precedence(top) > precedence(char)

PopsBeforePush(top, char) == precedence(top) >= precedence(char)

\* the loop of the operator branch
RECURSIVE PopHigher(_, _, _)
PopHigher(output, operatorStack, char) ==
    IF /\ Len(operatorStack) > 0
       /\ Top(operatorStack) # LPAREN
       /\ IsOperator(Top(operatorStack))
       /\ PopsBeforePush(Top(operatorStack), char)
    THEN PopHigher(Append(output, Top(operatorStack)), Front(operatorStack), char)
    ELSE <<output, operatorStack>>

\* the final loop: everything left on the operator stack goes to the output
RECURSIVE Drain(_, _)
Drain(output, operatorStack) ==
    IF Len(operatorStack) > 0
    THEN Drain(Append(output, Top(operatorStack)), Front(operatorStack))
    ELSE output

\* the for loop of infixToPostfix from position i on (1-based)
RECURSIVE Scan(_, _, _, _)
Scan(expression, i, output, operatorStack) ==
    IF i > Len(expression) THEN Drain(output, operatorStack)
    ELSE LET char == expression[i]
         IN  IF char = SPACE THEN Scan(expression, i + 1, output, operatorStack)
             ELSE IF isVariable(char)
                  THEN Scan(expression, i + 1, Append(output, char), operatorStack)
             ELSE IF char = LPAREN
                  THEN Scan(expression, i + 1, output, Append(operatorStack, char))
             ELSE IF char = RPAREN
                  THEN LET s == CloseParen(output, operatorStack)
                       IN  Scan(expression, i + 1, s[1], s[2])
             ELSE IF IsOperator(char)
                  THEN LET s == PopHigher(output, operatorStack, char)
                       IN  Scan(expression, i + 1, s[1], Append(s[2], char))
             ELSE Scan(expression, i + 1, output, operatorStack)

infixToPostfix(expression) == Scan(expression, 1, <<>>, <<>>)

\* an Error thrown inside the evaluator
Thrown == "Error"

applyUnaryOperator(operator, operand) ==
    IF operator = NEG THEN JsNot(operand) ELSE Thrown

applyBinaryOperator_swapped(operator, operand1, operand2) ==
    CASE operator = AND     -> JsAnd(operand2, operand1)
      [] operator = OR      -> JsOr(operand2, operand1)
      [] operator = IMPLIES -> JsOr(JsNot(operand2), operand1)
      [] operator = IFF     -> JsStrictEq(operand2, operand1)
      [] OTHER              -> Thrown

applyBinaryOperator(operator, operand1, operand2) ==
    CASE operator = AND     -> JsAnd(operand1, operand2)
      [] operator = OR      -> JsOr(operand1, operand2)
      [] operator = IMPLIES -> JsOr(JsNot(operand1), operand2)
      [] operator = IFF     -> JsStrictEq(operand1, operand2)
      [] OTHER              -> Thrown

\* stack.pop(): undefined from an empty array, which stays empty
Popped(stack) == IF Len(stack) = 0 THEN JsUndefined ELSE Top(stack)

AfterPop(stack) == IF Len(stack) = 0 THEN stack ELSE Front(stack)

\* the for loop of evaluatePostfix from token i on; the result is
\* [thrown, value]: whether an Error escaped, and the value returned if not
RECURSIVE Run(_, _, _, _)
Run(postfix, variableValues, i, stack) ==
    IF i > Len(postfix)
    THEN [thrown |-> FALSE, value |-> IF Len(stack) = 0 THEN JsUndefined ELSE stack[1]]
    ELSE LET token == postfix[i]
         IN  IF isVariable(token)
             THEN Run(postfix, variableValues, i + 1,
                      Append(stack, Lookup(variableValues, token)))
             ELSE IF IsOperator(token)
             THEN IF unary(token)
                  THEN LET operand == Popped(stack)
                           r == applyUnaryOperator(token, operand)
                       IN  IF r = Thrown THEN [thrown |-> TRUE, value |-> JsUndefined]
                           ELSE Run(postfix, variableValues, i + 1,
                                    Append(AfterPop(stack), r))
                  ELSE IF binary(token)
                  THEN LET operand2 == Popped(stack)
                           operand1 == Popped(AfterPop(stack))
                           r == applyBinaryOperator(token, operand1, operand2)
                       IN  IF r = Thrown THEN [thrown |-> TRUE, value |-> JsUndefined]
                           ELSE Run(postfix, variableValues, i + 1,
                                    Append(AfterPop(AfterPop(stack)), r))
                  ELSE Run(postfix, variableValues, i + 1, stack)
             ELSE Run(postfix, variableValues, i + 1, stack)

evaluatePostfix(postfix, variableValues) == Run(postfix, variableValues, 1, <<>>)

\* try { ... } catch (error) { return false; }
evaluate(expression, variableValues) ==
    LET r == evaluatePostfix(infixToPostfix(expression), variableValues)
    IN  IF r.thrown THEN JsFalse ELSE r.value

(***************************************************************************)
(* Formulas handed to the evaluator                                        *)
(*                                                                         *)
(* A syntax tree is <<tag, code, left, right>>: <<"var", letter, <<>>,     *)
(* <<>>>>, <<"not", NEG, operand, <<>>>> or <<"bin", connective, left,     *)
(* right>>.  The tree is what the formula means; the string handed to the  *)
(* evaluator is its rendering.                                             *)
(***************************************************************************)
MaxOps      == 2    \* connectives of a fully parenthesised formula
MaxNeg      == 2    \* consecutive negation signs
MaxChainOps == 2    \* connectives of an unparenthesised chain
MaxLen      == 3    \* length of an arbitrary string

Var(c)        == <<"var", c, <<>>, <<>>>>
Not(t)        == <<"not", NEG, t, <<>>>>
Bin(op, l, r) == <<"bin", op, l, r>>

\* a binary node written with its parentheses, a negation written as a prefix
RECURSIVE Render(_)
Render(t) ==
    CASE t[1] = "var" -> <<t[2]>>
      [] t[1] = "not" -> <<NEG>> \o Render(t[3])
      [] t[1] = "bin" -> <<LPAREN>> \o Render(t[3]) \o <<t[2]>> \o Render(t[4]) \o <<RPAREN>>

\* the same, the outermost pair of parentheses left out
RenderBare(t) ==
    IF t[1] = "bin" THEN Render(t[3]) \o <<t[2]>> \o Render(t[4]) ELSE Render(t)

BinSem(op, a, b) ==
    CASE op = AND     -> a /\ b
      [] op = OR      -> a \/ b
      [] op = IMPLIES -> (~a) \/ b
      [] op = IFF     -> a <=> b

\* the truth-functional value of a tree under an assignment covering it
RECURSIVE Sem(_, _)
Sem(t, a) ==
    CASE t[1] = "var" -> a[t[2]] = JsTrue
      [] t[1] = "not" -> ~Sem(t[3], a)
      [] t[1] = "bin" -> BinSem(t[2], Sem(t[3], a), Sem(t[4], a))

\* the trees with exactly k binary connectives over the given letters
RECURSIVE BinTrees(_, _)
BinTrees(letters, k) ==
    IF k = 0 THEN {Var(c) : c \in letters}
    ELSE UNION {{Bin(op, l, r) : op \in BinaryOps,
                                 l \in BinTrees(letters, i),
                                 r \in BinTrees(letters, k - 1 - i)} : i \in 0..(k - 1)}

\* t under j negation signs
RECURSIVE Negated(_, _)
Negated(t, j) == IF j = 0 THEN t ELSE Not(Negated(t, j - 1))

FpLetters == {CharP, CharQ}

FpTrees == UNION {BinTrees(FpLetters, k) : k \in 0..MaxOps}

\* negated operands: a letter or a parenthesised subformula under 0..MaxNeg signs
NegOperands ==
    {Negated(t, j) : t \in BinTrees(FpLetters, 0) \cup BinTrees(FpLetters, 1),
                     j \in 0..MaxNeg}

NegLetters == {Negated(Var(c), j) : c \in FpLetters, j \in 0..MaxNeg}

\* a negated operand alone, or two negated letters joined by one connective
NegTrees == NegOperands \cup {Bin(op, l, r) : op \in BinaryOps, l \in NegLetters, r \in NegLetters}

ChainLetters == {CharP, CharQ, CharR}

\* letters joined by exactly k connectives, no parentheses
RECURSIVE Chains(_)
Chains(k) ==
    IF k = 0 THEN {<<c>> : c \in ChainLetters}
    ELSE {ch \o <<op, c>> : ch \in Chains(k - 1), op \in BinaryOps, c \in ChainLetters}

\* the connective a chain is split at: the last one of the lowest precedence
SplitAt(chain) ==
    LET ops  == {i \in 1..Len(chain) : IsOperator(chain[i])}
        low  == CHOOSE m \in {precedence(chain[i]) : i \in ops} :
                    \A i \in ops : precedence(chain[i]) >= m
    IN  CHOOSE i \in ops : /\ precedence(chain[i]) = low
                           /\ \A j \in ops : precedence(chain[j]) = low => j <= i

\* the value of a chain grouped by precedence, equal precedence to the left
RECURSIVE ChainSem(_, _)
ChainSem(chain, a) ==
    IF Len(chain) = 1 THEN a[chain[1]] = JsTrue
    ELSE LET i == SplitAt(chain)
         IN  BinSem(chain[i], ChainSem(SubSeq(chain, 1, i - 1), a),
                               ChainSem(SubSeq(chain, i + 1, Len(chain)), a))

\* 49 is '1', a character no branch of the scanner accepts
RawAlphabet == {CharP, NEG, AND, IMPLIES, IFF, LPAREN, RPAREN, SPACE} \cup {49}

Strings(alphabet, n) == UNION {[1..k -> alphabet] : k \in 0..n}

Assignments(letters) == [letters -> JsBooleans]

PartialAssignments(letters) == UNION {Assignments(s) : s \in SUBSET letters}

\* the assignments giving every letter the same value
Uniform(letters) == {[c \in letters |-> v] : v \in JsBooleans}

\* the chain with a ')' written after its n-th character
CloseAfter(chain, n) ==
    SubSeq(chain, 1, n) \o <<RPAREN>> \o SubSeq(chain, n + 1, Len(chain))

EvalInput(kind, expression, variableValues, tree) ==
    [kind |-> kind, expression |-> expression,
     variableValues |-> variableValues, tree |-> tree]

NoCall == EvalInput("none", <<>>, <<>>, <<>>)

NoCombinations == [variableCount |-> 0, tuples |-> <<>>]

(***************************************************************************)
(* The evaluator on its own: one evaluate call per behaviour               *)
(***************************************************************************)
\* new LogicCore(): an empty canvas, ids counted from 1
Constructed ==
    /\ elements = <<>>
    /\ connections = <<>>
    /\ selectedElements = <<>>
    /\ nextElementId = 1
    /\ applied = <<>>

\* nothing has been called yet
Uncalled == summary = <<>> /\ converted = <<>> /\ extracted = <<>>

Idle ==
    /\ Constructed
    /\ Uncalled
    /\ arg = <<>>
    /\ outcome = "none"
    /\ combinations = NoCombinations
    /\ currentExpression = <<>>
    /\ currentTable = <<>>
    /\ userAnswers = <<>>
    /\ radios = <<>>
    /\ isModalOpen = FALSE

\* the call examined: a fully parenthesised formula, a formula with negation
\* signs, a chain, an arbitrary string, or a chain with one ')' written after
\* one of its letters, each with its assignments
InitEval ==
    /\ \/ \E t \in FpTrees, a \in Assignments(FpLetters) :
              call = EvalInput("fp", Render(t), a, t)
       \/ \E t \in NegTrees, a \in Assignments(FpLetters) :
              call = EvalInput("neg", RenderBare(t), a, t)
       \/ \E ch \in UNION {Chains(k) : k \in 0..MaxChainOps}, a \in Assignments(ChainLetters) :
              call = EvalInput("chain", ch, a, <<>>)
       \/ \E str \in Strings(RawAlphabet, MaxLen), a \in PartialAssignments({CharP}) :
              call = EvalInput("raw", str, a, <<>>)
       \/ \E ch \in UNION {Chains(k) : k \in 1..MaxChainOps}, a \in Uniform(ChainLetters) :
              \E n \in 1..Len(ch) :
                  /\ isVariable(ch[n])
                  /\ call = EvalInput("unmatched", CloseAfter(ch, n), a, <<>>)
    /\ returned = "pending"
    /\ Idle

Evaluate ==
    /\ returned' = evaluate(call.expression, call.variableValues)
    /\ UNCHANGED <<summary, converted, extracted, canvasVars, call, arg, outcome, combinations, currentExpression,
                   currentTable, userAnswers, radios, isModalOpen>>

\* infixToPostfix called on the expression of the behaviour
InfixToPostfix ==
    /\ converted' = <<infixToPostfix(call.expression)>>
    /\ UNCHANGED <<summary, extracted, canvasVars, call, returned, arg, outcome,
                   combinations, currentExpression, currentTable, userAnswers, radios,
                   isModalOpen>>

NextEval == Evaluate \/ InfixToPostfix

SpecEval == InitEval /\ [][NextEval]_vars

(***************************************************************************)
(* Claims about evaluate (under SpecEval)                                  *)
(***************************************************************************)
Ran == returned # "pending"

JsValueOf(b) == JsBool(b)

\* C1: a formula of letters, the four binary connectives and parentheses, every
\* binary application parenthesised, evaluates to its truth-functional value,
\* the operand written first being the left one.
C1_FullyParenthesised ==
    (call.kind = "fp" /\ Ran) => returned = JsValueOf(Sem(call.tree, call.variableValues))

\* ((p->q)->p) under p = false, q = true has run and gave false
C1_Witness ==
    /\ call.kind = "fp" /\ Ran
    /\ call.tree = Bin(IMPLIES, Bin(IMPLIES, Var(CharP), Var(CharQ)), Var(CharP))
    /\ call.variableValues[CharP] = JsFalse /\ call.variableValues[CharQ] = JsTrue
    /\ returned = JsFalse

\* whether evaluating the postfix tokens from token i on, with depth values on
\* the stack, pops a value that is not there
RECURSIVE Underflows(_, _, _)
Underflows(postfix, i, depth) ==
    IF i > Len(postfix) THEN FALSE
    ELSE LET token == postfix[i]
         IN  IF isVariable(token) THEN Underflows(postfix, i + 1, depth + 1)
             ELSE IF token = NEG THEN depth < 1 \/ Underflows(postfix, i + 1, depth)
             ELSE IF token \in BinaryOps
                  THEN depth < 2 \/ Underflows(postfix, i + 1, depth - 1)
             ELSE Underflows(postfix, i + 1, depth)

\* an internal fault: no token at all, or an operator short of operands
Faults(expression) ==
    LET postfix == infixToPostfix(expression)
    IN  postfix = <<>> \/ Underflows(postfix, 1, 0)

\* C4: evaluate returns a boolean for every string and every assignment, and
\* boolean false whenever the evaluation hits an internal fault.
C4_BooleanAndFalseOnFault ==
    Ran => /\ returned \in JsBooleans
           /\ Faults(call.expression) => returned = JsFalse

\* C5: a formula in which ~ prefixes a letter, a parenthesised subformula or
\* another negated operand evaluates to the value of its tree, ~ being the
\* logical NOT of its operand and binding tighter than the binary connectives.
C5_NegationIsNot ==
    (call.kind = "neg" /\ Ran) => returned = JsValueOf(Sem(call.tree, call.variableValues))

\* C6: an unparenthesised chain of letters evaluates as grouped by precedence
\* AND > OR > IMPLIES = IFF, equal precedence grouping to the left.
C6_ChainPrecedence ==
    (call.kind = "chain" /\ Ran) =>
        returned = JsValueOf(ChainSem(call.expression, call.variableValues))

\* p->q->r under p = false, q = true, r = false: (p->q)->r is false,
\* p->(q->r) would be true
C6_Witness ==
    /\ call.kind = "chain" /\ Ran
    /\ call.expression = <<CharP, IMPLIES, CharQ, IMPLIES, CharR>>
    /\ call.variableValues[CharP] = JsFalse
    /\ call.variableValues[CharQ] = JsTrue
    /\ call.variableValues[CharR] = JsFalse
    /\ returned = JsFalse

(***************************************************************************)
(* Claims about infixToPostfix (under SpecEval)                            *)
(***************************************************************************)
Converted == converted # <<>>

ThePostfix == converted[1]

\* C15: every token infixToPostfix returns is a variable or one of the five
\* operators; no parenthesis is returned, a '(' left on the operator stack at
\* the end of the input being dropped.
C15_NoParenthesisInOutput ==
    Converted =>
        \A n \in 1..Len(ThePostfix) :
            isVariable(ThePostfix[n]) \/ ThePostfix[n] \in {NEG, AND, OR, IMPLIES, IFF}

\* the number of '(' not yet closed when character i of the expression is read
RECURSIVE OpenParens(_, _)
OpenParens(expression, i) ==
    IF i = 1 THEN 0
    ELSE LET before == OpenParens(expression, i - 1)
             char   == expression[i - 1]
         IN  IF char = LPAREN THEN before + 1
             ELSE IF char = RPAREN /\ before > 0 THEN before - 1
             ELSE before

\* character i is a ')' read while the operator stack holds no '('
Unmatched(expression, i) == expression[i] = RPAREN /\ OpenParens(expression, i) = 0

Delete(expression, i) == SubSeq(expression, 1, i - 1) \o SubSeq(expression, i + 1, Len(expression))

\* C16: a ')' read while the operator stack holds no '(' is ignored: the tokens
\* returned are those returned for the formula without that ')'.
C16_UnmatchedCloseIgnored ==
    Converted =>
        \A i \in 1..Len(call.expression) :
            Unmatched(call.expression, i) =>
                ThePostfix = infixToPostfix(Delete(call.expression, i))

(***************************************************************************)
(* TruthTableGenerator                                                     *)
(***************************************************************************)
\* the characters String.prototype.trim strips (WhiteSpace and LineTerminator)
IsWhitespace(c) ==
    c \in {9, 10, 11, 12, 13, 32, 160, 5760, 8232, 8233, 8239, 8287, 12288, 65279}
          \cup (8192..8202)

RECURSIVE TrimStart(_)
TrimStart(str) ==
    IF Len(str) > 0 /\ IsWhitespace(str[1]) THEN TrimStart(Tail(str)) ELSE str

RECURSIVE TrimEnd(_)
TrimEnd(str) ==
    IF Len(str) > 0 /\ IsWhitespace(str[Len(str)]) THEN TrimEnd(Front(str)) ELSE str

trim_none(str) == str

\* expression.trim()
trim(str) == TrimEnd(TrimStart(str))

Contains(seq, x) == \E i \in 1..Len(seq) : seq[i] = x

\* the Set filled by the for loop of getVariables, in insertion order
RECURSIVE CollectLetters(_, _, _)
CollectLetters(expression, i, variables) ==
    IF i > Len(expression) THEN variables
    ELSE IF isVariable(expression[i]) /\ ~Contains(variables, expression[i])
         THEN CollectLetters(expression, i + 1, Append(variables, expression[i]))
         ELSE CollectLetters(expression, i + 1, variables)

\* element x put into the ascending sequence sorted
RECURSIVE Insert(_, _)
Insert(sorted, x) ==
    IF Len(sorted) = 0 THEN <<x>>
    ELSE IF x < sorted[1] THEN <<x>> \o sorted
    ELSE <<sorted[1]>> \o Insert(Tail(sorted), x)

\* Array.prototype.sort() on one-character strings: ascending by code unit
RECURSIVE sort(_)
sort(array) == IF Len(array) = 0 THEN <<>> ELSE Insert(sort(Tail(array)), array[1])

getVariables_unsorted(expression) == CollectLetters(expression, 1, <<>>)

getVariables(expression) == sort(CollectLetters(expression, 1, <<>>))

\* i >> j on 32-bit integers, for 0 <= i < 2^31: the shift count is taken mod 32
ShiftRight(i, j) == i \div (2 ^ (j % 32))

\* the inner loop of generateCombinations: j runs from variableCount-1 down to
\* 0, so position k (1-based) of the tuple holds bit variableCount-k of i
Combination_allTrueFirst(i, variableCount) ==
    [k \in 1..variableCount |-> JsBool(ShiftRight(i, variableCount - k) % 2 = 0)]

Combination_littleEndian(i, variableCount) ==
    [k \in 1..variableCount |-> JsBool(ShiftRight(i, k - 1) % 2 = 1)]

Combination(i, variableCount) ==
    [k \in 1..variableCount |-> JsBool(ShiftRight(i, variableCount - k) % 2 = 1)]

\* tuple i (0-based) is element i+1 of the sequence
generateCombinations(variableCount) ==
    [i1 \in 1..(2 ^ variableCount) |-> Combination(i1 - 1, variableCount)]

IndexOf(seq, x) == CHOOSE i \in 1..Len(seq) : seq[i] = x

RowAssignment_reversed(variables, combination) ==
    [c \in {variables[i] : i \in 1..Len(variables)} |->
        combination[Len(variables) + 1 - IndexOf(variables, c)]]

\* variables.forEach((variable, i) => variableValues[variable] = combination[i])
RowAssignment(variables, combination) ==
    [c \in {variables[i] : i \in 1..Len(variables)} |-> combination[IndexOf(variables, c)]]

\* the callback of combinations.map in generateTable
Row(expression, variables, combination, index) ==
    [index      |-> index,
     variables  |-> combination,
     result     |-> evaluate(expression, RowAssignment(variables, combination)),
     userAnswer |-> "null"]

\* how generateTable(expression) ends: the Error it throws, or "ok"
Throws(expression) ==
    IF expression = <<>> \/ trim(expression) = <<>> THEN "EmptyExpression"
    ELSE IF Len(getVariables(expression)) = 0 THEN "NoVariablesFound"
    ELSE "ok"

\* the table generateTable(expression) builds when it does not throw
Table(expression) ==
    LET variables == getVariables(expression)
        combos    == generateCombinations(Len(variables))
    IN  [expression |-> expression,
         variables  |-> variables,
         rows       |-> [i1 \in 1..Len(combos) |->
                            Row(expression, variables, combos[i1], i1 - 1)]]

GenerateTableEffect_assignsFirst(expression) ==
    /\ arg' = expression
    /\ outcome' = Throws(expression)
    /\ currentTable' = IF Throws(expression) = "ok" THEN <<Table(expression)>>
                       ELSE <<>>

\* what generateTable(expression) does to the generator: this.currentTable is
\* assigned only past both throws, this.userAnswers is not touched
GenerateTableEffect(expression) ==
    /\ arg' = expression
    /\ outcome' = Throws(expression)
    /\ currentTable' = IF Throws(expression) = "ok" THEN <<Table(expression)>>
                       ELSE currentTable

\* a call of generateTable(expression) on its own
GenerateTable(expression) ==
    /\ GenerateTableEffect(expression)
    /\ summary' = <<>>
    /\ UNCHANGED <<converted, extracted, canvasVars, call, returned, combinations, currentExpression, userAnswers,
                   radios, isModalOpen>>

(***************************************************************************)
(* LogicCore: the variable extractor                                       *)
(***************************************************************************)
\* this.operators of LogicCore
CoreOperators == {AND, OR, NEG, IMPLIES, IFF}

\* LogicCore.isVariable: /^[a-zA-Z]$/.test(char) && !this.operators.includes(char)
CoreIsVariable(char) == char \in (65..90) \cup (97..122) /\ char \notin CoreOperators

\* the Set filled by the for loop of getVariablesFromExpression, in insertion order
RECURSIVE CollectVariables(_, _, _)
CollectVariables(expression, i, variables) ==
    IF i > Len(expression) THEN variables
    ELSE IF CoreIsVariable(expression[i]) /\ ~Contains(variables, expression[i])
         THEN CollectVariables(expression, i + 1, Append(variables, expression[i]))
         ELSE CollectVariables(expression, i + 1, variables)

\* LogicCore.parseVariables: the distinct variables in the order of the input
parseVariables(input) == CollectVariables(input, 1, <<>>)

getVariablesFromExpression_unsorted(expression) == CollectVariables(expression, 1, <<>>)

\* LogicCore.getVariablesFromExpression
getVariablesFromExpression(expression) == sort(CollectVariables(expression, 1, <<>>))

(***************************************************************************)
(* LogicCore: the canvas                                                   *)
(*                                                                         *)
(* An element is its id, text and isSelected flag, a connection its from   *)
(* and to ids; the geometry (x, y, width, height and the end points of a   *)
(* connection) is only ever read to place what is created next.            *)
(***************************************************************************)
\* everything but the canvas and LogicCore.currentExpression
otherVars ==
    <<call, returned, arg, outcome, combinations, currentTable, userAnswers, radios,
      isModalOpen, summary, converted, extracted>>

\* the step calls applyOperator not at all
NoApplyOperator == applied' = <<>>

\* this.elements.find(e => e.id === elementId): the position of the first
\* element with that id, 0 when there is none
find(elems, elementId) ==
    IF \E n \in 1..Len(elems) : elems[n].id = elementId
    THEN CHOOSE n \in 1..Len(elems) :
             /\ elems[n].id = elementId
             /\ \A m \in 1..(n - 1) : elems[m].id # elementId
    ELSE 0

\* the elements after createElement(text, x, y) with this.nextElementId = id
createElement(elems, id, text) ==
    Append(elems, [id |-> id, text |-> text, isSelected |-> FALSE])

createConnection(conns, from, to) == Append(conns, [from |-> from, to |-> to])

\* this.selectedElements.filter(id => id !== elementId)
RECURSIVE filter(_, _)
filter(selected, elementId) ==
    IF Len(selected) = 0 THEN <<>>
    ELSE IF selected[1] # elementId
         THEN <<selected[1]>> \o filter(Tail(selected), elementId)
         ELSE filter(Tail(selected), elementId)

toggleSelection_keepsId(elems, selected, elementId) ==
    LET n == find(elems, elementId)
    IN  IF n = 0 THEN [elements |-> elems, selectedElements |-> selected]
        ELSE IF elems[n].isSelected
             THEN [elements |-> [elems EXCEPT ![n].isSelected = FALSE],
                   selectedElements |-> selected]
             ELSE [elements |-> [elems EXCEPT ![n].isSelected = TRUE],
                   selectedElements |-> Append(selected, elementId)]

\* LogicCore.toggleSelection: the elements and the selection it leaves
toggleSelection(elems, selected, elementId) ==
    LET n == find(elems, elementId)
    IN  IF n = 0 THEN [elements |-> elems, selectedElements |-> selected]
        ELSE IF elems[n].isSelected
             THEN [elements |-> [elems EXCEPT ![n].isSelected = FALSE],
                   selectedElements |-> filter(selected, elementId)]
             ELSE [elements |-> [elems EXCEPT ![n].isSelected = TRUE],
                   selectedElements |-> Append(selected, elementId)]

\* LogicCore.clearSelection on the elements
Deselected(elems) == [n \in 1..Len(elems) |-> [elems[n] EXCEPT !.isSelected = FALSE]]

NegationText_bare(text) == <<NEG>> \o text

\* `(~${element.text})`
NegationText(text) == <<LPAREN, NEG>> \o text \o <<RPAREN>>

BinaryText_swapped(text1, operator, text2) ==
    <<LPAREN>> \o text2 \o <<operator>> \o text1 \o <<RPAREN>>

\* `(${element1.text}${operator}${element2.text})`
BinaryText(text1, operator, text2) ==
    <<LPAREN>> \o text1 \o <<operator>> \o text2 \o <<RPAREN>>

Dispatch_atLeastOne(operator, count) ==
    IF operator = NEG /\ count >= 1 THEN "negation"
    ELSE IF operator # NEG /\ count = 2 THEN "binary"
    ELSE "none"

\* the branch applyOperator takes with count elements selected
Dispatch(operator, count) ==
    IF operator = NEG /\ count = 1 THEN "negation"
    ELSE IF operator # NEG /\ count = 2 THEN "binary"
    ELSE "none"

\* the canvas as a record, for the operators that return a whole canvas
Canvas ==
    [elements |-> elements, connections |-> connections,
     selectedElements |-> selectedElements, currentExpression |-> currentExpression,
     nextElementId |-> nextElementId]

\* LogicCore.applyNegation: the value returned and the canvas left
applyNegation ==
    LET n == find(elements, selectedElements[1])
    IN  IF n = 0 THEN [returned |-> FALSE, canvas |-> Canvas]
        ELSE LET newText == NegationText(elements[n].text)
             IN  [returned |-> TRUE,
                  canvas |->
                    [elements |-> Deselected(createElement(elements, nextElementId, newText)),
                     connections |-> createConnection(connections, elements[n].id, nextElementId),
                     selectedElements |-> <<>>,
                     currentExpression |-> newText,
                     nextElementId |-> nextElementId + 1]]

\* LogicCore.applyBinaryOperator (of the canvas, not of the evaluator)
CoreApplyBinaryOperator(operator) ==
    IF Len(selectedElements) # 2 THEN [returned |-> FALSE, canvas |-> Canvas]
    ELSE LET n1 == find(elements, selectedElements[1])
             n2 == find(elements, selectedElements[2])
         IN  IF n1 = 0 \/ n2 = 0 THEN [returned |-> FALSE, canvas |-> Canvas]
             ELSE LET newText == BinaryText(elements[n1].text, operator, elements[n2].text)
                  IN  [returned |-> TRUE,
                       canvas |->
                         [elements |-> Deselected(createElement(elements, nextElementId, newText)),
                          connections |->
                              createConnection(
                                  createConnection(connections, elements[n1].id, nextElementId),
                                  elements[n2].id, nextElementId),
                          selectedElements |-> <<>>,
                          currentExpression |-> newText,
                          nextElementId |-> nextElementId + 1]]

\* LogicCore.applyOperator
applyOperator(operator) ==
    CASE Dispatch(operator, Len(selectedElements)) = "negation" -> applyNegation
      [] Dispatch(operator, Len(selectedElements)) = "binary" ->
             CoreApplyBinaryOperator(operator)
      [] OTHER -> [returned |-> FALSE, canvas |-> Canvas]

\* the canvas variables take the values of the record
Becomes(canvas) ==
    /\ elements' = canvas.elements
    /\ connections' = canvas.connections
    /\ selectedElements' = canvas.selectedElements
    /\ currentExpression' = canvas.currentExpression
    /\ nextElementId' = canvas.nextElementId

\* LogicCore.clear
Cleared ==
    [elements |-> <<>>, connections |-> <<>>, selectedElements |-> <<>>,
     currentExpression |-> <<>>, nextElementId |-> 1]

\* UIController.generateVariableElements: clear(), then one element per variable
RECURSIVE generateVariableElements(_, _)
generateVariableElements(variables, n) ==
    IF n = 0 THEN Cleared
    ELSE LET before == generateVariableElements(variables, n - 1)
         IN  [before EXCEPT
                 !.elements = createElement(before.elements, before.nextElementId,
                                            <<variables[n]>>),
                 !.nextElementId = before.nextElementId + 1]

(***************************************************************************)
(* The generator's pure part: one expression per behaviour                 *)
(***************************************************************************)
MaxCount == 3    \* variable count handed to generateCombinations

TableAlphabet == {CharP, CharQ, CharUpperA, AND, NEG, LPAREN, RPAREN, SPACE, TAB} \cup {49}

\* "1+1"
OnePlusOne == <<49, 43, 49>>

TableInputs ==
    Strings(TableAlphabet, MaxLen)
    \cup {Render(t) : t \in FpTrees}
    \cup {RenderBare(t) : t \in NegTrees}
    \cup UNION {Chains(k) : k \in 0..MaxChainOps}
    \cup {OnePlusOne}

InitTable ==
    /\ call = NoCall
    /\ returned = "pending"
    /\ arg \in TableInputs
    /\ Constructed
    /\ Uncalled
    /\ outcome = "none"
    /\ combinations = NoCombinations
    /\ currentExpression = <<>>
    /\ currentTable = <<>>
    /\ userAnswers = <<>>
    /\ radios = <<>>
    /\ isModalOpen = FALSE

\* generateTable on the expression of this behaviour
GenerateTableArg == GenerateTable(arg)

GenerateCombinations ==
    \E variableCount \in 1..MaxCount :
        /\ combinations' = [variableCount |-> variableCount,
                            tuples |-> generateCombinations(variableCount)]
        /\ UNCHANGED <<summary, converted, extracted, canvasVars, call, returned, arg,
                       outcome, currentExpression, currentTable, userAnswers, radios,
                       isModalOpen>>

NextTable == GenerateTableArg \/ GenerateCombinations

SpecTable == InitTable /\ [][NextTable]_vars

(***************************************************************************)
(* The two variable extractors on the expression of the behaviour          *)
(***************************************************************************)
InitExtract == InitTable

\* getVariables and getVariablesFromExpression called on the expression
ExtractVariables ==
    /\ extracted' = <<[generator |-> getVariables(arg),
                       core      |-> getVariablesFromExpression(arg)]>>
    /\ UNCHANGED <<summary, converted, canvasVars, call, returned, arg, outcome,
                   combinations, currentExpression, currentTable, userAnswers, radios,
                   isModalOpen>>

NextExtract == ExtractVariables

SpecExtract == InitExtract /\ [][NextExtract]_vars

(***************************************************************************)
(* Claims about generateCombinations and generateTable (under SpecTable)   *)
(***************************************************************************)
Generated == outcome = "ok"

TheTable == currentTable[1]

RowView(row) == <<row.variables, row.result>>

T == JsTrue

F == JsFalse

PAndQ == <<LPAREN, CharP, AND, CharQ, RPAREN>>

AllRows(value) ==
    /\ \A k \in 1..Len(TheTable.rows[1].variables) :
            TheTable.rows[1].variables[k] = value
    /\ \A k \in 1..Len(TheTable.rows[Len(TheTable.rows)].variables) :
            TheTable.rows[Len(TheTable.rows)].variables[k] = JsNot(value)

RECURSIVE BigEndian(_)
BigEndian(tuple) ==
    IF Len(tuple) = 0 THEN 0
    ELSE 2 * BigEndian(Front(tuple)) + (IF tuple[Len(tuple)] = JsTrue THEN 1 ELSE 0)

\* C3: generateCombinations(n), n >= 1, returns 2^n pairwise distinct tuples of
\* length n of booleans, tuple i spelling i in big-endian binary, so the
\* sequence is strictly increasing.
C3_BinaryCounting ==
    LET n      == combinations.variableCount
        tuples == combinations.tuples
    IN  n >= 1 =>
            /\ Len(tuples) = 2 ^ n
            /\ \A i \in 1..Len(tuples) :
                  /\ Len(tuples[i]) = n
                  /\ \A k \in 1..n : tuples[i][k] \in JsBooleans
                  /\ BigEndian(tuples[i]) = i - 1
            /\ \A i, j \in 1..Len(tuples) : i # j => tuples[i] # tuples[j]
            /\ \A i \in 1..(Len(tuples) - 1) : BigEndian(tuples[i]) < BigEndian(tuples[i + 1])

\* generateCombinations(3) has run; its tuple 3 is [false, true, true]
C3_Witness ==
    /\ combinations.variableCount = 3
    /\ Len(combinations.tuples) = 8
    /\ combinations.tuples[4] = <<F, T, T>>

LettersOf(expression) ==
    {expression[i] : i \in 1..Len(expression)} \cap ((65..90) \cup (97..122))

\* the letters of a set in ascending order of character code
Ascending(letters) ==
    CHOOSE s \in [1..Cardinality(letters) -> letters] :
        \A i, j \in 1..Cardinality(letters) : i < j => s[i] < s[j]

\* the assignment giving the j-th of the letters the j-th of the values
Zip(letters, values) ==
    [c \in {letters[j] : j \in 1..Len(letters)} |->
        values[CHOOSE j \in 1..Len(letters) : letters[j] = c]]

\* C7: for a formula with n >= 1 distinct letters the table has 2^n rows, row i
\* has index i, n boolean values and no user answer, and its result is the
\* formula's value with the j-th letter in ascending order given value j.
C7_TableShape ==
    Generated =>
        LET n      == Cardinality(LettersOf(arg))
            sorted == Ascending(LettersOf(arg))
            rows   == TheTable.rows
        IN  /\ n >= 1
            /\ TheTable.variables = sorted
            /\ Len(rows) = 2 ^ n
            /\ \A i \in 1..Len(rows) :
                  /\ rows[i].index = i - 1
                  /\ Len(rows[i].variables) = n
                  /\ \A j \in 1..n : rows[i].variables[j] \in JsBooleans
                  /\ rows[i].userAnswer = "null"
                  /\ rows[i].result = evaluate(arg, Zip(sorted, rows[i].variables))

\* "q AND A": the letters are listed A, q, four rows
C7_Witness ==
    /\ Generated
    /\ arg = <<CharQ, AND, CharUpperA>>
    /\ TheTable.variables = <<CharUpperA, CharQ>>
    /\ Len(TheTable.rows) = 4

\* C8: evaluating the table's formula again under the assignment that gives the
\* table's j-th variable the row's j-th value returns the row's stored result.
C8_RoundTrip ==
    Generated =>
        \A i \in 1..Len(TheTable.rows) :
            evaluate(TheTable.expression,
                     Zip(TheTable.variables, TheTable.rows[i].variables))
                = TheTable.rows[i].result

\* "(p -> q)": the row p = true, q = false holds false, the row p = false,
\* q = true holds true
C8_Witness ==
    /\ Generated
    /\ arg = <<LPAREN, CharP, IMPLIES, CharQ, RPAREN>>
    /\ RowView(TheTable.rows[3]) = <<<<T, F>>, F>>
    /\ RowView(TheTable.rows[2]) = <<<<F, T>>, T>>

Blank(expression) == \A i \in 1..Len(expression) : IsWhitespace(expression[i])

\* C9: generateTable fails with EmptyExpression exactly when the formula is
\* blank, with NoVariablesFound exactly when it is not blank and holds no
\* letter, and returns a table for the formula in every other case.
C9_Failures ==
    outcome # "none" =>
        /\ outcome = "EmptyExpression" <=> Blank(arg)
        /\ outcome = "NoVariablesFound" <=> (~Blank(arg) /\ LettersOf(arg) = {})
        /\ outcome = "ok" <=> (~Blank(arg) /\ LettersOf(arg) # {})
        /\ outcome = "ok" => (currentTable # <<>> /\ TheTable.expression = arg)

\* generateTable("1+1") has failed with NoVariablesFound
C9_Witness == arg = OnePlusOne /\ outcome = "NoVariablesFound" /\ currentTable = <<>>

(***************************************************************************)
(* Claims about the variable extractors (under SpecExtract)                *)
(***************************************************************************)
\* C14: getVariables and getVariablesFromExpression both return the ASCII
\* letters occurring in the formula, each once, ascending by character code
\* (uppercase before lowercase), and a second call returns the same lists.
C14_ExtractVariables ==
    [][extracted' # <<>> =>
          /\ extracted'[1].generator = Ascending(LettersOf(arg'))
          /\ extracted'[1].core = extracted'[1].generator
          /\ extracted # <<>> => extracted' = extracted]_vars

\* "qAq" has been extracted: A before q, q once
C14_Witness ==
    /\ arg = <<CharQ, CharUpperA, CharQ>>
    /\ extracted # <<>>
    /\ extracted[1].generator = <<CharUpperA, CharQ>>
    /\ extracted[1].core = <<CharUpperA, CharQ>>

(***************************************************************************)
(* The generator and the application over time                             *)
(*                                                                         *)
(* arg and outcome record the generateTable call made by the latest        *)
(* handler; outcome is "none" when it made none.                           *)
(***************************************************************************)
MaxRadioRow == 2    \* the user clicks the radios of rows 0..MaxRadioRow-1
MaxRandomCount == 2 \* variableCount drawn by handleRandomFormula: 2..MaxRandomCount of 2..4

\* expressions handed to generateTable directly: "", " ", "1+1", "p", "(~p)"
ApiInputs ==
    {<<>>, <<SPACE>>, OnePlusOne, <<CharP>>, <<LPAREN, NEG, CharP, RPAREN>>}

\* one round of the loop of generateRandomFormula with the drawn operator,
\* variable and negation
RandomStep(result, operator, variable, negate) ==
    LET negated == IF negate THEN <<LPAREN, NEG>> \o result \o <<RPAREN>> ELSE result
    IN  <<LPAREN>> \o negated \o <<operator, variable>> \o <<RPAREN>>

\* ['p', 'q', 'r', 's', 't'].slice(0, Math.max(2, variableCount))
RandomVars(variableCount) ==
    SubSeq(<<CharP, CharQ, CharR, 115, 116>>, 1,
           IF variableCount > 2 THEN variableCount ELSE 2)

\* the strings generateRandomFormula(variableCount) can return, from round i on
RECURSIVE RandomFrom(_, _, _)
RandomFrom(result, i, variableCount) ==
    IF i >= variableCount - 1 THEN {result}
    ELSE UNION {RandomFrom(RandomStep(result, operator, RandomVars(variableCount)[v], negate),
                           i + 1, variableCount) :
                    operator \in BinaryOps,
                    v \in 1..Len(RandomVars(variableCount)),
                    negate \in BOOLEAN}

generateRandomFormula(variableCount) ==
    RandomFrom(<<RandomVars(variableCount)[1]>>, 0, variableCount)

\* the random formulas followed here: "(p AND q)" and "((~p) -> p)"
RandomSample ==
    {<<LPAREN, CharP, AND, CharQ, RPAREN>>,
     <<LPAREN, LPAREN, NEG, CharP, RPAREN, IMPLIES, CharP, RPAREN>>}

NoAnswers == [i \in {} |-> JsTrue]

NoRadios == [i \in {} |-> "none"]

Init ==
    /\ call = NoCall
    /\ returned = "pending"
    /\ arg = <<>>
    /\ Constructed
    /\ Uncalled
    /\ outcome = "none"
    /\ combinations = NoCombinations
    /\ currentExpression = <<>>
    /\ currentTable = <<>>
    /\ userAnswers = NoAnswers
    /\ radios = NoRadios
    /\ isModalOpen = FALSE

NoGenerateTable == arg' = <<>> /\ outcome' = "none"

\* the handler does not call checkAnswers
NoCheckAnswers == summary' = <<>>

\* TruthTableGenerator.generateTable called directly
GenerateTableCall ==
    \E expression \in ApiInputs : GenerateTable(expression)

\* renderTable: one radio group per row of the current table, nothing checked
RenderedRadios(table) == [i \in 0..(Len(table.rows) - 1) |-> "none"]

\* MathLogicApp.handleTruthTable
HandleTruthTable ==
    IF currentExpression = <<>>
    THEN /\ NoGenerateTable
         /\ NoCheckAnswers
         /\ UNCHANGED <<converted, extracted, canvasVars, call, returned, combinations, currentExpression, currentTable,
                        userAnswers, radios, isModalOpen>>
    ELSE /\ GenerateTableEffect(currentExpression)
         /\ NoCheckAnswers
         /\ IF Throws(currentExpression) = "ok"
            THEN /\ radios' = RenderedRadios(Table(currentExpression))
                 /\ isModalOpen' = TRUE
            ELSE UNCHANGED <<radios, isModalOpen>>
         /\ UNCHANGED <<converted, extracted, canvasVars, call, returned, combinations, currentExpression, userAnswers>>

\* what handleRandomFormula does with the formula drawn: the canvas is rebuilt
\* from its variables, then the formula becomes the current expression
RandomFormulaEffect(formula) ==
    LET variables == getVariablesFromExpression(formula)
    IN  Becomes([generateVariableElements(variables, Len(variables)) EXCEPT
                    !.currentExpression = formula])

\* MathLogicApp.handleRandomFormula, for the formulas of RandomSample
HandleRandomFormula ==
    \E variableCount \in 2..MaxRandomCount :
        \E formula \in generateRandomFormula(variableCount) \cap RandomSample :
            /\ RandomFormulaEffect(formula)
            /\ NoApplyOperator
            /\ NoGenerateTable
            /\ NoCheckAnswers
            /\ UNCHANGED <<converted, extracted, call, returned, combinations, currentTable,
                           userAnswers, radios, isModalOpen>>

\* the user checks the T or the F radio of a row of the table on display
ClickRadio ==
    \E i \in DOMAIN radios, value \in JsBooleans :
        /\ isModalOpen
        /\ i < MaxRadioRow
        /\ radios' = [radios EXCEPT ![i] = value]
        /\ NoGenerateTable
        /\ NoCheckAnswers
        /\ UNCHANGED <<converted, extracted, canvasVars, call, returned, combinations, currentExpression, currentTable,
                       userAnswers, isModalOpen>>

\* the answers object collectUserAnswers builds from the checked radios
CollectedAnswers(table) ==
    [i \in {j \in 0..(Len(table.rows) - 1) : j \in DOMAIN radios /\ radios[j] # "none"} |->
        JsBool(radios[i] = "true")]

\* collectUserAnswers: without a table the answers are returned, not stored
CollectUserAnswers ==
    userAnswers' = IF currentTable = <<>> THEN userAnswers
                   ELSE CollectedAnswers(currentTable[1])

\* the entry of the row at index: this.userAnswers[index] is undefined when the
\* object has no such key
ResultEntry_lenient(row, index, answers) ==
    IF index \in DOMAIN answers
    THEN [index |-> index, userAnswer |-> answers[index], correctAnswer |-> row.result,
          isCorrect |-> answers[index] = row.result]
    ELSE [index |-> index, userAnswer |-> "null", correctAnswer |-> row.result,
          isCorrect |-> row.result = JsFalse]

ResultEntry(row, index, answers) ==
    IF index \in DOMAIN answers
    THEN [index |-> index, userAnswer |-> answers[index], correctAnswer |-> row.result,
          isCorrect |-> answers[index] = row.result]
    ELSE [index |-> index, userAnswer |-> "null", correctAnswer |-> row.result,
          isCorrect |-> FALSE]

\* the counters answered and correct after the first n rows were mapped
RECURSIVE Tally(_, _)
Tally(results, n) ==
    IF n = 0 THEN [answered |-> 0, correct |-> 0]
    ELSE LET before == Tally(results, n - 1)
             entry  == results[n]
         IN  IF entry.userAnswer # "null"
             THEN [answered |-> before.answered + 1,
                   correct  |-> before.correct + (IF entry.isCorrect THEN 1 ELSE 0)]
             ELSE before

\* (correct / total * 100).toFixed(1) in tenths of a percent: the one-decimal
\* number nearest to the quotient, the larger of two equally near
toFixed(correct, total) == (2000 * correct + total) \div (2 * total)

\* the summary checkAnswers returns once collectUserAnswers has run; score is a
\* string of toFixed or the number 0
checkAnswers(table, answers) ==
    IF table = <<>> THEN [correct |-> 0, total |-> 0, isComplete |-> FALSE]
    ELSE LET rows    == table[1].rows
             total   == Len(rows)
             results == [n \in 1..total |-> ResultEntry(rows[n], n - 1, answers)]
             tally   == Tally(results, total)
         IN  [correct    |-> tally.correct,
              total      |-> total,
              answered   |-> tally.answered,
              isComplete |-> tally.answered = total,
              results    |-> results,
              score      |-> IF total > 0
                             THEN [isString |-> TRUE, tenths |-> toFixed(tally.correct, total)]
                             ELSE [isString |-> FALSE, tenths |-> 0]]

CheckAnswersEffect_marksRows ==
    /\ CollectUserAnswers
    /\ summary' = <<checkAnswers(currentTable, userAnswers')>>
    /\ currentTable' =
           IF currentTable = <<>> THEN currentTable
           ELSE <<[currentTable[1] EXCEPT !.rows =
                      [n \in 1..Len(currentTable[1].rows) |->
                          [currentTable[1].rows[n] EXCEPT !.userAnswer =
                              summary'[1].results[n].userAnswer]]]>>

\* checkAnswers: the answers are collected, the rows are read and not written
CheckAnswersEffect ==
    /\ CollectUserAnswers
    /\ summary' = <<checkAnswers(currentTable, userAnswers')>>
    /\ currentTable' = currentTable

\* MathLogicApp.handleCheckAnswers: the summary checkAnswers returns is displayed
HandleCheckAnswers ==
    /\ CheckAnswersEffect
    /\ NoGenerateTable
    /\ UNCHANGED <<converted, extracted, canvasVars, call, returned, combinations,
                   currentExpression, radios, isModalOpen>>

\* MathLogicApp.handleResetAnswers
HandleResetAnswers ==
    /\ radios' = [i \in DOMAIN radios |-> "none"]
    /\ userAnswers' = NoAnswers
    /\ NoGenerateTable
    /\ NoCheckAnswers
    /\ UNCHANGED <<converted, extracted, canvasVars, call, returned, combinations, currentExpression, currentTable,
                   isModalOpen>>

ResetEffect_keepsTable == currentTable' = currentTable /\ userAnswers' = NoAnswers

\* TruthTableGenerator.reset
ResetEffect == currentTable' = <<>> /\ userAnswers' = NoAnswers

\* MathLogicApp.closeModal
CloseModal ==
    /\ isModalOpen' = FALSE
    /\ ResetEffect
    /\ NoGenerateTable
    /\ NoCheckAnswers
    /\ UNCHANGED <<converted, extracted, canvasVars, call, returned, combinations, currentExpression, radios>>

Next ==
    \/ GenerateTableCall
    \/ HandleTruthTable
    \/ HandleRandomFormula
    \/ ClickRadio
    \/ HandleCheckAnswers
    \/ HandleResetAnswers
    \/ CloseModal

Spec == Init /\ [][Next]_vars

(***************************************************************************)
(* Claims about the table over time (under Spec)                           *)
(***************************************************************************)
Failed == outcome \in {"EmptyExpression", "NoVariablesFound"}

\* C10: a generateTable call that fails leaves currentTable and userAnswers as
\* they were, and the modal open or closed as it was.
C10_FailureKeepsState ==
    [][Failed' => UNCHANGED <<currentTable, userAnswers, isModalOpen>>]_vars

\* generateTable has just failed with a table, answers and the open modal in place
C10_Witness ==
    /\ Failed
    /\ currentTable # <<>>
    /\ userAnswers # NoAnswers
    /\ isModalOpen

(***************************************************************************)
(* Claims about checkAnswers (under Spec)                                  *)
(***************************************************************************)
Checked == summary # <<>>

TheSummary == summary[1]

\* the rows whose radio group has a checked radio: the answers submitted
Submitted ==
    {i \in 0..(Len(TheTable.rows) - 1) : i \in DOMAIN radios /\ radios[i] # "none"}

\* C11: every summary checkAnswers returns, with or without a table, carries
\* counters with correct <= answered <= total, and the number 0 as its score
\* when total is 0.
C11_SummaryCounters ==
    Checked =>
        /\ {"correct", "answered", "total", "score"} \subseteq DOMAIN TheSummary
        /\ TheSummary.correct <= TheSummary.answered
        /\ TheSummary.answered <= TheSummary.total
        /\ TheSummary.total = 0 =>
               (~TheSummary.score.isString /\ TheSummary.score.tenths = 0)

\* C12: with a table of N rows, checkAnswers counts total = N, answered = the
\* rows with a submitted answer, correct = the rows whose submitted answer is
\* the row's result; isComplete iff answered = total; the entries follow the
\* rows in index order, isCorrect only on answered rows that match, an
\* unanswered row having userAnswer null and isCorrect false.
C12_CheckAnswersCounts ==
    (Checked /\ currentTable # <<>>) =>
        LET rows    == TheTable.rows
            matches == {i \in Submitted : radios[i] = rows[i + 1].result}
        IN  /\ TheSummary.total = Len(rows)
            /\ TheSummary.answered = Cardinality(Submitted)
            /\ TheSummary.correct = Cardinality(matches)
            /\ TheSummary.isComplete <=> (TheSummary.answered = TheSummary.total)
            /\ Len(TheSummary.results) = Len(rows)
            /\ \A i \in 0..(Len(rows) - 1) :
                   LET entry == TheSummary.results[i + 1]
                   IN  /\ entry.index = i
                       /\ entry.correctAnswer = rows[i + 1].result
                       /\ entry.isCorrect <=> i \in matches
                       /\ entry.userAnswer = IF i \in Submitted THEN radios[i] ELSE "null"

\* (p AND q) with row 0 answered F (right) and row 1 answered T (wrong), rows 2
\* and 3 unanswered: 1 correct of 2 answered of 4
C12_Witness ==
    /\ Checked /\ currentTable # <<>>
    /\ TheTable.expression = PAndQ
    /\ TheSummary.total = 4 /\ TheSummary.answered = 2 /\ TheSummary.correct = 1
    /\ ~TheSummary.isComplete
    /\ TheSummary.results[2].userAnswer = JsTrue /\ ~TheSummary.results[2].isCorrect
    /\ TheSummary.results[3].userAnswer = "null" /\ ~TheSummary.results[3].isCorrect

\* C13: a checkAnswers call leaves the table as generateTable built it, the
\* userAnswer of every row still null, and repeated with the same submitted
\* answers it returns the same summary.
C13_TableUntouched ==
    [][Checked' =>
          /\ currentTable' = currentTable
          /\ currentTable' # <<>> => currentTable' = <<Table(currentTable'[1].expression)>>
          /\ (Checked /\ radios' = radios) => summary' = summary]_vars

\* checkAnswers has run on a table with submitted answers
C13_Witness ==
    /\ Checked /\ currentTable # <<>>
    /\ TheSummary.answered = 2
    /\ \A n \in 1..Len(TheTable.rows) : TheTable.rows[n].userAnswer = "null"

\* C18: the stored user answers belong to the current table: right after a
\* generateTable that succeeds the generator holds no user answer, and after
\* closeModal (reset) the table and the user answers are both gone.
C18_AnswersBelongToTable ==
    [][/\ outcome' = "ok" => userAnswers' = NoAnswers
       /\ (isModalOpen /\ ~isModalOpen') =>
              (currentTable' = <<>> /\ userAnswers' = NoAnswers)]_vars

(***************************************************************************)
(* The canvas over time                                                    *)
(*                                                                         *)
(* applied records the applyOperator call of the latest step and what it   *)
(* returned; it is <<>> when the step made none.  createElement is called   *)
(* by generateVariableElements and by the two apply functions only.        *)
(***************************************************************************)
MaxElements == 3    \* elements on the canvas

\* what the user types into the variables input: "", " ", "p", "pp", "pq"
SeedInputs ==
    {<<>>, <<SPACE>>, <<CharP>>, <<CharP, CharP>>, <<CharP, CharQ>>}

InitCore == Init

\* MathLogicApp.handleGenerateVariables
HandleGenerateVariables ==
    \E input \in SeedInputs :
        LET value     == trim(input)
            variables == parseVariables(value)
        IN  /\ IF value = <<>> \/ Len(variables) = 0
               THEN UNCHANGED <<elements, connections, selectedElements,
                                currentExpression, nextElementId>>
               ELSE Becomes(generateVariableElements(variables, Len(variables)))
            /\ NoApplyOperator
            /\ UNCHANGED otherVars

\* LogicCore.toggleSelection, with the id of an element or of none
ToggleSelection ==
    \E elementId \in 1..(MaxElements + 1) :
        LET toggled == toggleSelection(elements, selectedElements, elementId)
        IN  /\ elements' = toggled.elements
            /\ selectedElements' = toggled.selectedElements
            /\ NoApplyOperator
            /\ UNCHANGED <<connections, currentExpression, nextElementId, otherVars>>

\* LogicCore.clearSelection
ClearSelection ==
    /\ elements' = Deselected(elements)
    /\ selectedElements' = <<>>
    /\ NoApplyOperator
    /\ UNCHANGED <<connections, currentExpression, nextElementId, otherVars>>

\* LogicCore.applyOperator with one of the five operators
ApplyOperator ==
    \E operator \in CoreOperators :
        LET result == applyOperator(operator)
        IN  /\ result.returned => Len(elements) < MaxElements
            /\ Becomes(result.canvas)
            /\ applied' = <<[operator |-> operator, returned |-> result.returned]>>
            /\ UNCHANGED otherVars

\* LogicCore.clear
Clear ==
    /\ Becomes(Cleared)
    /\ NoApplyOperator
    /\ UNCHANGED otherVars

\* MathLogicApp.handleRandomFormula with any formula generateRandomFormula
\* returns.  The handler rebuilds the canvas from the formula alone, so the
\* state it leaves is the same whatever state it is fired in; it is fired
\* from the empty canvas, which reaches every state it can leave.
RandomFormula ==
    \E variableCount \in 2..MaxRandomCount :
        \E formula \in generateRandomFormula(variableCount) :
            /\ elements = <<>>
            /\ RandomFormulaEffect(formula)
            /\ NoApplyOperator
            /\ UNCHANGED otherVars

NextCore ==
    \/ HandleGenerateVariables
    \/ ToggleSelection
    \/ ClearSelection
    \/ ApplyOperator
    \/ Clear
    \/ RandomFormula

SpecCore == InitCore /\ [][NextCore]_vars

(***************************************************************************)
(* Claims about the canvas (under SpecCore)                                *)
(***************************************************************************)
\* the number of values on the stack of evaluatePostfix after n tokens
RECURSIVE Depth(_, _)
Depth(tokens, n) ==
    IF n = 0 THEN 0
    ELSE LET before == Depth(tokens, n - 1)
         IN  IF isVariable(tokens[n]) THEN before + 1
             ELSE IF tokens[n] \in BinaryOps THEN before - 1
             ELSE before

\* C17: the current expression built on the canvas from one-letter variables,
\* or drawn by generateRandomFormula, converts to a postfix sequence whose
\* evaluation never pops an empty stack and leaves one value; evaluate returns
\* a boolean under every full assignment and generateTable does not fail.
C17_CanvasExpressionsValid ==
    currentExpression # <<>> =>
        LET tokens == infixToPostfix(currentExpression)
        IN  /\ ~Underflows(tokens, 1, 0)
            /\ Depth(tokens, Len(tokens)) = 1
            /\ \A a \in Assignments(LettersOf(currentExpression)) :
                   evaluate(currentExpression, a) \in JsBooleans
            /\ Throws(currentExpression) = "ok"

\* (~(~p)) was built on the canvas
C17_Witness ==
    /\ currentExpression = <<LPAREN, NEG, LPAREN, NEG, CharP, RPAREN, RPAREN>>
    /\ Len(elements) = 3
    /\ applied # <<>>

\* C19: selectedElements has no duplicates and holds exactly the ids of the
\* elements whose isSelected flag is set.
C19_SelectionMatchesFlags ==
    /\ \A j, k \in 1..Len(selectedElements) :
           selectedElements[j] = selectedElements[k] => j = k
    /\ {selectedElements[k] : k \in 1..Len(selectedElements)}
           = {elements[n].id : n \in {m \in 1..Len(elements) : elements[m].isSelected}}

\* of three elements the third was selected before the first, the second is not
C19_Witness ==
    /\ Len(elements) = 3
    /\ selectedElements = <<3, 1>>
    /\ ~elements[2].isSelected

\* C20: applyOperator returns true iff the operator is ~ with one element
\* selected or a binary operator with two selected; when it returns false the
\* elements, connections, selection, current expression and nextElementId are
\* as before.
C20_ApplyOperatorReturn ==
    [][applied' # <<>> =>
          LET op    == applied'[1].operator
              count == Len(selectedElements)
          IN  /\ applied'[1].returned <=>
                     ((op = NEG /\ count = 1) \/ (op # NEG /\ count = 2))
              /\ ~applied'[1].returned =>
                     UNCHANGED <<elements, connections, selectedElements,
                                 currentExpression, nextElementId>>]_vars

\* ~ was refused with two elements selected, which stay selected
C20_Witness ==
    /\ applied = <<[operator |-> NEG, returned |-> FALSE]>>
    /\ Len(selectedElements) = 2
    /\ Len(elements) = 2

\* the element of the canvas with the id
ElementWithId(id) == elements[CHOOSE n \in 1..Len(elements) : elements[n].id = id]

\* the texts and ids of the first n elements, in order
TextsAndIds(elems, n) == [m \in 1..n |-> <<elems[m].id, elems[m].text>>]

\* C21: an applyOperator that succeeds with A selected before B adds one
\* element, its id the previous nextElementId and its text "(" A op B ")",
\* adds the connections A->new and B->new, makes the new text the current
\* expression, empties the selection and keeps the text and id of every
\* element there was; a negation that succeeds does so with "(~" A ")" and
\* the one connection A->new.
C21_ApplyOperatorEffect ==
    [][(applied' # <<>> /\ applied'[1].returned) =>
          LET op      == applied'[1].operator
              n       == Len(elements)
              A       == ElementWithId(selectedElements[1])
              newText == IF op = NEG
                         THEN <<LPAREN, NEG>> \o A.text \o <<RPAREN>>
                         ELSE <<LPAREN>> \o A.text \o <<op>>
                                  \o ElementWithId(selectedElements[2]).text \o <<RPAREN>>
              added   == IF op = NEG
                         THEN <<[from |-> A.id, to |-> nextElementId]>>
                         ELSE <<[from |-> A.id, to |-> nextElementId],
                                [from |-> ElementWithId(selectedElements[2]).id,
                                 to |-> nextElementId]>>
          IN  /\ Len(elements') = n + 1
              /\ elements'[n + 1].id = nextElementId
              /\ \A m \in 1..n : elements[m].id # nextElementId
              /\ elements'[n + 1].text = newText
              /\ connections' = connections \o added
              /\ currentExpression' = newText
              /\ selectedElements' = <<>>
              /\ TextsAndIds(elements', n) = TextsAndIds(elements, n)]_vars

\* of p and (~p), (~p) was selected first and AND applied: ((~p) AND p), with
\* the connections 2->3 and 1->3 after 1->2
C21_Witness ==
    /\ applied = <<[operator |-> AND, returned |-> TRUE]>>
    /\ Len(elements) = 3
    /\ elements[3].id = 3
    /\ elements[3].text = <<LPAREN, LPAREN, NEG, CharP, RPAREN, AND, CharP, RPAREN>>
    /\ connections = <<[from |-> 1, to |-> 2], [from |-> 2, to |-> 3], [from |-> 1, to |-> 3]>>
    /\ selectedElements = <<>>

(***************************************************************************)
(* The application driven through its handlers only: generateTable is      *)
(* called by handleTruthTable and by nothing else                          *)
(***************************************************************************)
InitApp == Init

NextApp ==
    \/ HandleTruthTable
    \/ HandleRandomFormula
    \/ ClickRadio
    \/ HandleCheckAnswers
    \/ HandleResetAnswers
    \/ CloseModal

SpecApp == InitApp /\ [][NextApp]_vars

(***************************************************************************)
(* Claims about the modal (under SpecApp)                                  *)
(***************************************************************************)
\* 2^n by repeated doubling
RECURSIVE PowerOfTwo(_)
PowerOfTwo(n) == IF n = 0 THEN 1 ELSE 2 * PowerOfTwo(n - 1)

\* the modal is open iff there is a table, and a summary returned while the
\* modal is open counts the 2^n >= 2 rows of a table over n variables
ModalHoldsTable ==
    /\ isModalOpen <=> currentTable # <<>>
    /\ (isModalOpen /\ Checked) =>
           /\ "answered" \in DOMAIN TheSummary
           /\ TheSummary.total = PowerOfTwo(Len(TheTable.variables))
           /\ TheSummary.total >= 2
           /\ Len(TheSummary.results) = TheSummary.total

\* C22: between the handlers handleTruthTable, handleCheckAnswers,
\* handleResetAnswers and closeModal the modal is open iff the generator holds
\* a table; with an empty current expression no handler opens the modal or
\* makes a table; handleCheckAnswers from the open modal scores a table of
\* total = 2^n >= 2 rows.
C22_ModalIffTable ==
    [][/\ ModalHoldsTable
       /\ ModalHoldsTable'
       /\ currentExpression = <<>> => UNCHANGED <<isModalOpen, currentTable>>]_vars

\* handleCheckAnswers has scored the four rows of (p AND q) in the open modal
C22_Witness ==
    /\ isModalOpen
    /\ Checked
    /\ TheTable.expression = PAndQ
    /\ TheSummary.total = 4
    /\ TheSummary.answered = 2

====
